---- MODULE Spec2Model ----
(***************************************************************************)
(* Model of the study-planning module: the StudyState held by              *)
(* StudyProvider (state.tsx), the planner (planner.ts: generateSubjectPlan)*)
(* the revision pass scheduler (RevisionPlannerView.tsx) and the calendar  *)
(* helpers (utils/selectors.ts).                                           *)
(*                                                                         *)
(* Calendar dates are day numbers relative to the day the planner reads as *)
(* "today" (Today = 0, tomorrow = 1, yesterday = -1).  The 'YYYY-MM-DD'    *)
(* strings of the program order exactly as these numbers do.  A Dayjs      *)
(* value that is not valid is InvalidDate; its formatted string            *)
(* 'Invalid Date' sorts after every 'YYYY-MM-DD' string.                   *)
(* An optional field that is absent (undefined) is Undef.                  *)
(***************************************************************************)
EXTENDS Integers, Sequences, FiniteSets, TLC

Today == 0
Undef == -1
InvalidDate == 9999

\* ---- bounds of the model ------------------------------------------------
\* the user plans a lecture by hand while the calendar holds fewer first-pass targets
MaxTargets == 1
\* the user runs a revision pass while the calendar holds fewer revision targets
MaxRevisions == 1
\* no target is added to a calendar that already holds a day with more target minutes
MaxTargetMinutes == 60

VARIABLES subjects, lectures, studyDays, settings, focusSession, last

vars == <<subjects, lectures, studyDays, settings, focusSession, last>>

\* the StudyState snapshot the updaters receive
State == [subjects |-> subjects, lectures |-> lectures,
          studyDays |-> studyDays, settings |-> settings,
          focusSession |-> focusSession]

\* ---- small helpers ------------------------------------------------------
Max(a, b) == IF a >= b THEN a ELSE b
Min(a, b) == IF a <= b THEN a ELSE b

RECURSIVE SumSeq(_)
SumSeq(s) == IF s = <<>> THEN 0 ELSE s[1] + SumSeq(Tail(s))

\* Array.prototype.find on studyDays by date: index of the first match, 0 if none
FindDay(days, date) ==
  IF \E i \in DOMAIN days : days[i].date = date
  THEN CHOOSE i \in DOMAIN days :
         /\ days[i].date = date
         /\ \A j \in DOMAIN days : days[j].date = date => i <= j
  ELSE 0

\* Array.prototype.find on lectures by id
FindLecture(lecs, id) ==
  IF \E i \in DOMAIN lecs : lecs[i].id = id
  THEN CHOOSE i \in DOMAIN lecs :
         /\ lecs[i].id = id
         /\ \A j \in DOMAIN lecs : lecs[j].id = id => i <= j
  ELSE 0

FindSubject(subs, id) ==
  IF \E i \in DOMAIN subs : subs[i].id = id
  THEN CHOOSE i \in DOMAIN subs :
         /\ subs[i].id = id
         /\ \A j \in DOMAIN subs : subs[j].id = id => i <= j
  ELSE 0

\* dayjs add/subtract of days; an invalid date stays invalid
AddDays(d, n) == IF d = InvalidDate THEN InvalidDate ELSE d + n

\* dayjs isAfter / isBefore: false as soon as one side is invalid
IsAfter(a, b) == a # InvalidDate /\ b # InvalidDate /\ a > b
IsBefore(a, b) == a # InvalidDate /\ b # InvalidDate /\ a < b
IsValid(d) == d # InvalidDate

NewDay(date) ==
  [date |-> date, isRestDay |-> FALSE, targetMinutes |-> Undef,
   completedMinutes |-> 0, targetLectures |-> <<>>, completedLectures |-> <<>>]

\* getOrCreateStudyDay that appends a day without looking for the date
getOrCreateStudyDay_alwaysAppend(days, date) == Append(days, NewDay(date))

\* selectors.ts getOrCreateStudyDay: the calendar with the day appended when absent
getOrCreateStudyDay(days, date) ==
  IF FindDay(days, date) # 0 THEN days ELSE Append(days, NewDay(date))

\* planner.ts ensureStudyDay: same contract as getOrCreateStudyDay
ensureStudyDay(days, date) ==
  IF FindDay(days, date) # 0 THEN days ELSE Append(days, NewDay(date))

\* removeSubjectTargets that forgets the isRevision exemption
removeSubjectTargets_dropRevision(targets, subjectId) ==
  SelectSeq(targets, LAMBDA t : t.subjectId # subjectId)

\* planner.ts removeSubjectTargets: the filter applied to one target list
removeSubjectTargets(targets, subjectId) ==
  SelectSeq(targets, LAMBDA t : t.subjectId # subjectId \/ t.isRevision)

\* planner.ts assignBlock; a block label is <<name, number>>
blocks == << <<"morning", 0>>, <<"afternoon", 0>>, <<"evening", 0>> >>
assignBlock(index) ==
  IF index < Len(blocks) THEN blocks[index + 1] ELSE <<"slot", index + 1>>

\* stable sort of lectures by order ascending (Array.prototype.sort is stable)
RECURSIVE SortByOrder(_)
SortByOrder(s) ==
  IF s = <<>> THEN <<>>
  ELSE LET rest == SortByOrder(SubSeq(s, 1, Len(s) - 1))
           x == s[Len(s)]
           k == Cardinality({i \in DOMAIN rest : rest[i].order <= x.order})
       IN SubSeq(rest, 1, k) \o <<x>> \o SubSeq(rest, k + 1, Len(rest))

\* stable sort of study days by date ascending (localeCompare on the date strings)
RECURSIVE SortByDate(_)
SortByDate(s) ==
  IF s = <<>> THEN <<>>
  ELSE LET rest == SortByDate(SubSeq(s, 1, Len(s) - 1))
           x == s[Len(s)]
           k == Cardinality({i \in DOMAIN rest : rest[i].date <= x.date})
       IN SubSeq(rest, 1, k) \o <<x>> \o SubSeq(rest, k + 1, Len(rest))

\* ---- planner.ts : generateSubjectPlan ------------------------------------
ExamCloseWarning == "Exam is very close. The planner may overload upcoming days."
RestDaysWarning == "All days before the exam are marked as rest days. Using them anyway for planning."

\* availableLectures that takes only the lectures not started yet
availableLectures_notStartedOnly(st, subjectId) ==
  SortByOrder(SelectSeq(st.lectures,
                        LAMBDA l : l.subjectId = subjectId /\ l.status = "not_started"))

\* the pending lectures of the subject, sorted by order
availableLectures(st, subjectId) ==
  SortByOrder(SelectSeq(st.lectures,
                        LAMBDA l : l.subjectId = subjectId /\ l.status # "done"))

\* cutoff = examDate - (reservedRevisionDays ?? 0) days
cutoffOf(subject) ==
  AddDays(subject.examDate,
          0 - (IF subject.reservedRevisionDays = Undef THEN 0
               ELSE subject.reservedRevisionDays))

\* previousTotal / previousDays, kept as a fraction num/den
previousAverage(st, subjectId) ==
  LET counts == [i \in DOMAIN st.studyDays |->
                   Len(SelectSeq(st.studyDays[i].targetLectures,
                                 LAMBDA t : t.subjectId = subjectId /\ ~t.isRevision))]
      previousTotal == SumSeq(counts)
      previousDays == Cardinality({i \in DOMAIN counts : counts[i] > 0})
  IN IF previousDays > 0 THEN [num |-> previousTotal, den |-> previousDays]
     ELSE [num |-> 0, den |-> 1]

\* the last date of the day range
planEnd(cutoff, pendingCount) ==
  IF IsValid(cutoff) /\ IsAfter(cutoff, Today) THEN cutoff
  ELSE Today + Max(pendingCount - 1, 0)

\* the walk that stops one day before end
rangeDates_exclusive(end) == [i \in 1..(end - Today) |-> Today + (i - 1)]

\* the dates the while loop walks: today .. end
rangeDates(end) == [i \in 1..(end - Today + 1) |-> Today + (i - 1)]

\* activeDays that takes every day of the range, rest day or not
activeDays_withRestDays(days, dates) == dates

\* the dates of the range whose StudyDay is not a rest day
activeDays(days, dates) ==
  SelectSeq(dates, LAMBDA d : ~days[FindDay(days, d)].isRestDay)

RECURSIVE ensureAll(_, _)
ensureAll(days, dates) ==
  IF dates = <<>> THEN days
  ELSE ensureAll(ensureStudyDay(days, Head(dates)), Tail(dates))

\* maxLectures = settings.maxLecturesPerDay ?? Infinity
withinLectureCap(count, maxLectures) == maxLectures = Undef \/ count < maxLectures
\* the minute test without the lecture's own estimate
withinMinuteCap_ignoreEstimate(minutes, estimated, maxMinutes) ==
  maxMinutes = Undef \/ minutes <= maxMinutes

\* maxMinutes = settings.maxMinutesPerDay ?? Infinity
withinMinuteCap(minutes, estimated, maxMinutes) ==
  maxMinutes = Undef \/ minutes + estimated <= maxMinutes

dayQualifies(acc, date, lecture, sett) ==
  /\ withinLectureCap(Len(acc.dayAssignments[date]), sett.maxLecturesPerDay)
  /\ withinMinuteCap(acc.dayMinutes[date], lecture.estimatedMinutes, sett.maxMinutesPerDay)

\* the for loop with break: index of the first planning day under both caps, 0 if none
firstFit(acc, planningDates, lecture, sett) ==
  IF \E i \in DOMAIN planningDates : dayQualifies(acc, planningDates[i], lecture, sett)
  THEN CHOOSE i \in DOMAIN planningDates :
         /\ dayQualifies(acc, planningDates[i], lecture, sett)
         /\ \A j \in DOMAIN planningDates :
              dayQualifies(acc, planningDates[j], lecture, sett) => i <= j
  ELSE 0

\* a lecture without a fitting day sent to the last planning day
initialAssignedDay_lastDay(planningDates) == Len(planningDates)

\* the day a lecture without a fitting day starts from: let assignedDay = planningDays[0]
initialAssignedDay(planningDates) == IF Len(planningDates) > 0 THEN 1 ELSE 0

\* one round of availableLectures.forEach
placeLecture(acc, planningDates, lecture, subjectId, sett) ==
  LET fit == firstFit(acc, planningDates, lecture, sett)
      start == IF fit # 0 THEN fit ELSE initialAssignedDay(planningDates)
      undefinedDay == start = 0
      idx == IF undefinedDay THEN Len(planningDates) ELSE start
      date == planningDates[idx]
      assignments == acc.dayAssignments[date]
      atCap == sett.maxLecturesPerDay # Undef /\ Len(assignments) >= sett.maxLecturesPerDay
      planned == [subjectId |-> subjectId, lectureId |-> lecture.id,
                  block |-> assignBlock(Len(assignments)), isRevision |-> FALSE]
  IN [dayAssignments |-> [acc.dayAssignments EXCEPT ![date] = Append(assignments, planned)],
      dayMinutes |-> [acc.dayMinutes EXCEPT ![date] = @ + lecture.estimatedMinutes],
      overloaded |-> acc.overloaded \/ undefinedDay \/ atCap,
      noFit |-> IF fit = 0 THEN acc.noFit \cup {lecture.id} ELSE acc.noFit]

RECURSIVE placeAll(_, _, _, _, _)
placeAll(acc, planningDates, lecs, subjectId, sett) ==
  IF lecs = <<>> THEN acc
  ELSE placeAll(placeLecture(acc, planningDates, Head(lecs), subjectId, sett),
                planningDates, Tail(lecs), subjectId, sett)

\* planningDays.forEach at the end of the run, for one day
finishDay(day, assignments, minutes, subjectId) ==
  LET plannedIds == {assignments[i].lectureId : i \in DOMAIN assignments}
  IN [day EXCEPT
        !.targetLectures =
           SelectSeq(day.targetLectures,
                     LAMBDA item : item.subjectId # subjectId \/ item.isRevision)
           \o assignments,
        !.targetMinutes = IF Len(assignments) > 0 THEN minutes ELSE @,
        !.completedLectures =
           IF Len(@) > 0
           THEN SelectSeq(@, LAMBDA c : c.lectureId \in plannedIds \/ c.isRevision)
           ELSE @]

EmptyPlan(subjectId) ==
  [threw |-> FALSE, subjectId |-> subjectId, studyDays |-> <<>>,
   previousAverage |-> [num |-> 0, den |-> 1], newAverage |-> [num |-> 0, den |-> 1],
   overloaded |-> FALSE, warnings |-> <<>>, pending |-> <<>>,
   rangeDates |-> <<>>, planningDates |-> <<>>,
   dayAssignments |-> <<>>, startMinutes |-> <<>>, dayMinutes |-> <<>>, noFit |-> {},
   inputDays |-> <<>>]

\* the throw of line 37: nothing of the snapshot is touched
subjectNotFound(st, subjectId) ==
  [EmptyPlan(subjectId) EXCEPT !.threw = TRUE, !.studyDays = st.studyDays,
                               !.inputDays = st.studyDays]

\* the early return of line 60: the snapshot as it came in
nothingPending(st, subjectId) ==
  [EmptyPlan(subjectId) EXCEPT !.studyDays = st.studyDays,
                               !.inputDays = st.studyDays,
                               !.previousAverage = previousAverage(st, subjectId)]

\* lines 63-161: the run for a subject that resolves.  The StudyDay objects of the
\* snapshot passed in are shared with the array the run works on (the callers copy
\* the array, not the days), and the run assigns to their fields; the days it
\* creates are appended to the copy.  inputDays is what the days of the snapshot
\* passed in hold when the run returns.
planPending(st, subjectId) ==
  LET subject == st.subjects[FindSubject(st.subjects, subjectId)]
      cutoff == cutoffOf(subject)
      pending == availableLectures(st, subjectId)
      w1 == IF ~IsValid(cutoff) \/ IsBefore(cutoff, Today) THEN <<ExamCloseWarning>> ELSE <<>>
      dates == rangeDates(planEnd(cutoff, Len(pending)))
      days1 == ensureAll(st.studyDays, dates)
      activeDates == activeDays(days1, dates)
      w2 == IF Len(activeDates) = 0 THEN <<RestDaysWarning>> ELSE <<>>
      planningDates == IF Len(activeDates) > 0 THEN activeDates ELSE dates
      pset == {planningDates[i] : i \in DOMAIN planningDates}
      \* planningDays.forEach(removeSubjectTargets)
      days2 == [i \in DOMAIN days1 |->
                  IF days1[i].date \in pset
                  THEN [days1[i] EXCEPT !.targetLectures = removeSubjectTargets(@, subjectId)]
                  ELSE days1[i]]
      startMinutes == [d \in pset |->
                         LET tm == days2[FindDay(days2, d)].targetMinutes
                         IN IF tm = Undef THEN 0 ELSE tm]
      acc0 == [dayAssignments |-> [d \in pset |-> <<>>], dayMinutes |-> startMinutes,
               overloaded |-> FALSE, noFit |-> {}]
      acc == placeAll(acc0, planningDates, pending, subjectId, st.settings)
      days3 == [i \in DOMAIN days2 |->
                  IF days2[i].date \in pset
                  THEN finishDay(days2[i], acc.dayAssignments[days2[i].date],
                                 acc.dayMinutes[days2[i].date], subjectId)
                  ELSE days2[i]]
  IN [threw |-> FALSE, subjectId |-> subjectId,
      studyDays |-> SortByDate(days3),
      previousAverage |-> previousAverage(st, subjectId),
      newAverage |-> [num |-> Len(pending), den |-> Max(1, Len(planningDates))],
      overloaded |-> acc.overloaded,
      warnings |-> w1 \o w2,
      pending |-> [i \in DOMAIN pending |-> pending[i].id],
      rangeDates |-> dates,
      planningDates |-> planningDates,
      dayAssignments |-> acc.dayAssignments,
      startMinutes |-> startMinutes,
      dayMinutes |-> acc.dayMinutes,
      noFit |-> acc.noFit,
      inputDays |-> SubSeq(days3, 1, Len(st.studyDays))]

\* generateSubjectPlan that answers an unknown subject like a subject with nothing to plan
generateSubjectPlan_noThrow(st, subjectId) ==
  IF FindSubject(st.subjects, subjectId) = 0 THEN nothingPending(st, subjectId)
  ELSE IF Len(availableLectures(st, subjectId)) = 0 THEN nothingPending(st, subjectId)
  ELSE planPending(st, subjectId)

\* generateSubjectPlan without the early return for an empty pending list
generateSubjectPlan_noEarlyReturn(st, subjectId) ==
  IF FindSubject(st.subjects, subjectId) = 0 THEN subjectNotFound(st, subjectId)
  ELSE planPending(st, subjectId)

generateSubjectPlan(st, subjectId) ==
  IF FindSubject(st.subjects, subjectId) = 0 THEN subjectNotFound(st, subjectId)
  ELSE IF Len(availableLectures(st, subjectId)) = 0 THEN nothingPending(st, subjectId)
  ELSE planPending(st, subjectId)

\* ---- state.tsx : the updaters -------------------------------------------
\* assignLectureToDay that puts the new target in front of the day's list
assignLectureToDay_prepend(st, date, planned, estimatedMinutes) ==
  LET days == getOrCreateStudyDay(st.studyDays, date)
      day == days[FindDay(days, date)]
      existing == \E i \in DOMAIN day.targetLectures :
                    day.targetLectures[i].lectureId = planned.lectureId
      targetLectures == IF ~existing THEN <<planned>> \o day.targetLectures
                        ELSE day.targetLectures
      li == FindLecture(st.lectures, planned.lectureId)
      minutes == IF estimatedMinutes # Undef THEN estimatedMinutes
                 ELSE IF li # 0 THEN st.lectures[li].estimatedMinutes ELSE 30
      targetMinutes == (IF day.targetMinutes = Undef THEN 0 ELSE day.targetMinutes)
                       + (IF existing THEN 0 ELSE minutes)
      updatedDay == [day EXCEPT !.targetLectures = targetLectures,
                                !.targetMinutes = targetMinutes]
  IN [i \in DOMAIN days |-> IF days[i].date = date THEN updatedDay ELSE days[i]]

\* assignLectureToDay that appends the target without looking for the lecture
assignLectureToDay_noDedup(st, date, planned, estimatedMinutes) ==
  LET days == getOrCreateStudyDay(st.studyDays, date)
      day == days[FindDay(days, date)]
      li == FindLecture(st.lectures, planned.lectureId)
      minutes == IF estimatedMinutes # Undef THEN estimatedMinutes
                 ELSE IF li # 0 THEN st.lectures[li].estimatedMinutes ELSE 30
      targetMinutes == (IF day.targetMinutes = Undef THEN 0 ELSE day.targetMinutes) + minutes
      updatedDay == [day EXCEPT !.targetLectures = Append(day.targetLectures, planned),
                                !.targetMinutes = targetMinutes]
  IN [i \in DOMAIN days |-> IF days[i].date = date THEN updatedDay ELSE days[i]]

\* assignLectureToDay that counts the minutes of a lecture the day already holds
assignLectureToDay_alwaysAddMinutes(st, date, planned, estimatedMinutes) ==
  LET days == getOrCreateStudyDay(st.studyDays, date)
      day == days[FindDay(days, date)]
      existing == \E i \in DOMAIN day.targetLectures :
                    day.targetLectures[i].lectureId = planned.lectureId
      targetLectures == IF ~existing THEN Append(day.targetLectures, planned)
                        ELSE day.targetLectures
      li == FindLecture(st.lectures, planned.lectureId)
      minutes == IF estimatedMinutes # Undef THEN estimatedMinutes
                 ELSE IF li # 0 THEN st.lectures[li].estimatedMinutes ELSE 30
      targetMinutes == (IF day.targetMinutes = Undef THEN 0 ELSE day.targetMinutes) + minutes
      updatedDay == [day EXCEPT !.targetLectures = targetLectures,
                                !.targetMinutes = targetMinutes]
  IN [i \in DOMAIN days |-> IF days[i].date = date THEN updatedDay ELSE days[i]]

\* assignLectureToDay that looks for an entry of the same lecture and the same track
assignLectureToDay_dedupPerTrack(st, date, planned, estimatedMinutes) ==
  LET days == getOrCreateStudyDay(st.studyDays, date)
      day == days[FindDay(days, date)]
      existing == \E i \in DOMAIN day.targetLectures :
                    /\ day.targetLectures[i].lectureId = planned.lectureId
                    /\ day.targetLectures[i].isRevision = planned.isRevision
      targetLectures == IF ~existing THEN Append(day.targetLectures, planned)
                        ELSE day.targetLectures
      li == FindLecture(st.lectures, planned.lectureId)
      minutes == IF estimatedMinutes # Undef THEN estimatedMinutes
                 ELSE IF li # 0 THEN st.lectures[li].estimatedMinutes ELSE 30
      targetMinutes == (IF day.targetMinutes = Undef THEN 0 ELSE day.targetMinutes)
                       + (IF existing THEN 0 ELSE minutes)
      updatedDay == [day EXCEPT !.targetLectures = targetLectures,
                                !.targetMinutes = targetMinutes]
  IN [i \in DOMAIN days |-> IF days[i].date = date THEN updatedDay ELSE days[i]]

\* assignLectureToDay(date, planned, estimatedMinutes): the calendar it returns
assignLectureToDay(st, date, planned, estimatedMinutes) ==
  LET days == getOrCreateStudyDay(st.studyDays, date)
      day == days[FindDay(days, date)]
      existing == \E i \in DOMAIN day.targetLectures :
                    day.targetLectures[i].lectureId = planned.lectureId
      targetLectures == IF ~existing THEN Append(day.targetLectures, planned)
                        ELSE day.targetLectures
      li == FindLecture(st.lectures, planned.lectureId)
      minutes == IF estimatedMinutes # Undef THEN estimatedMinutes
                 ELSE IF li # 0 THEN st.lectures[li].estimatedMinutes ELSE 30
      targetMinutes == (IF day.targetMinutes = Undef THEN 0 ELSE day.targetMinutes)
                       + (IF existing THEN 0 ELSE minutes)
      updatedDay == [day EXCEPT !.targetLectures = targetLectures,
                                !.targetMinutes = targetMinutes]
  IN [i \in DOMAIN days |-> IF days[i].date = date THEN updatedDay ELSE days[i]]

\* togglePlannedLectureCompletion(date, planned, completed): calendar and lectures
togglePlannedLectureCompletion(st, date, planned, completed) ==
  LET days == getOrCreateStudyDay(st.studyDays, date)
      day == days[FindDay(days, date)]
      alreadyCompleted == \E i \in DOMAIN day.completedLectures :
                            day.completedLectures[i].lectureId = planned.lectureId
      completedLectures ==
        IF completed /\ ~alreadyCompleted THEN Append(day.completedLectures, planned)
        ELSE IF ~completed /\ alreadyCompleted
             THEN SelectSeq(day.completedLectures,
                            LAMBDA c : c.lectureId # planned.lectureId)
             ELSE day.completedLectures
      nextLectures ==
        [i \in DOMAIN st.lectures |->
           IF st.lectures[i].id # planned.lectureId THEN st.lectures[i]
           ELSE IF completed THEN [st.lectures[i] EXCEPT !.status = "done"]
           ELSE IF st.lectures[i].status = "done"
                THEN [st.lectures[i] EXCEPT !.status = "in_progress"]
                ELSE st.lectures[i]]
      updatedDay == [day EXCEPT !.completedLectures = completedLectures]
  IN [studyDays |-> [i \in DOMAIN days |->
                       IF days[i].date = date THEN updatedDay ELSE days[i]],
      lectures |-> nextLectures]

\* setRestDay(date, isRestDay): the calendar it returns
setRestDay(st, date, isRestDay) ==
  LET days == getOrCreateStudyDay(st.studyDays, date)
      day == [days[FindDay(days, date)] EXCEPT !.isRestDay = isRestDay]
  IN [i \in DOMAIN days |-> IF days[i].date = date THEN day ELSE days[i]]

\* markLectureStatus(lectureId, status): the lecture list it returns
markLectureStatus(st, lectureId, status) ==
  [i \in DOMAIN st.lectures |->
     IF st.lectures[i].id = lectureId THEN [st.lectures[i] EXCEPT !.status = status]
     ELSE st.lectures[i]]

\* focusSession: null
NoSession == [lectureId |-> "", subjectId |-> ""]

\* a PlannedLecture built without a block (block: undefined)
NoBlock == <<"none", 0>>

\* startFocusSession(lectureId, durationMinutes): the session it opens, without
\* its startedAt time stamp
startFocusSession(st, lectureId, durationMinutes) ==
  LET li == FindLecture(st.lectures, lectureId)
  IN IF li = 0 THEN st.focusSession
     ELSE [lectureId |-> lectureId, subjectId |-> st.lectures[li].subjectId,
           durationMinutes |-> durationMinutes,
           remainingSeconds |-> durationMinutes * 60,
           isRunning |-> TRUE]

\* updateFocusSession that lets the clock run past zero
updateFocusSession_noFloor(st, deltaSeconds, isRunning) ==
  IF st.focusSession = NoSession THEN st.focusSession
  ELSE [st.focusSession EXCEPT !.remainingSeconds = @ - deltaSeconds,
                               !.isRunning = isRunning]

\* updateFocusSession(deltaSeconds, isRunning): the session it returns
updateFocusSession(st, deltaSeconds, isRunning) ==
  IF st.focusSession = NoSession THEN st.focusSession
  ELSE [st.focusSession EXCEPT !.remainingSeconds = Max(0, @ - deltaSeconds),
                               !.isRunning = isRunning]

\* endFocusSession(result, minutes): calendar, lectures and session it returns
endFocusSession(st, result, minutes) ==
  IF st.focusSession = NoSession
  THEN [studyDays |-> st.studyDays, lectures |-> st.lectures,
        focusSession |-> st.focusSession]
  ELSE
  LET session == st.focusSession
      days == getOrCreateStudyDay(st.studyDays, Today)
      day == days[FindDay(days, Today)]
      lectureIndex == FindLecture(st.lectures, session.lectureId)
      updatedLectures ==
        [i \in DOMAIN st.lectures |->
           IF i # lectureIndex THEN st.lectures[i]
           ELSE IF result = "finished" THEN [st.lectures[i] EXCEPT !.status = "done"]
           ELSE IF result = "needs_revision"
                THEN [st.lectures[i] EXCEPT !.status = "needs_revision"]
                ELSE [st.lectures[i] EXCEPT !.status = "in_progress"]]
      planned == [subjectId |-> session.subjectId, lectureId |-> session.lectureId,
                  block |-> NoBlock, isRevision |-> FALSE]
      found == \E i \in DOMAIN day.completedLectures :
                 day.completedLectures[i].lectureId = planned.lectureId
      completedLectures == IF result = "finished" /\ ~found
                           THEN Append(day.completedLectures, planned)
                           ELSE day.completedLectures
      completedMinutes == IF minutes > 0 THEN day.completedMinutes + minutes
                          ELSE day.completedMinutes
      updatedDay == [day EXCEPT !.completedLectures = completedLectures,
                                !.completedMinutes = completedMinutes]
  IN [studyDays |-> [i \in DOMAIN days |->
                       IF days[i].date = Today THEN updatedDay ELSE days[i]],
      lectures |-> updatedLectures,
      focusSession |-> NoSession]

\* logCompletedMinutes(date, minutes): the calendar it returns
logCompletedMinutes(st, date, minutes) ==
  LET days == getOrCreateStudyDay(st.studyDays, date)
      day == [days[FindDay(days, date)] EXCEPT !.completedMinutes = @ + minutes]
  IN [i \in DOMAIN days |-> IF days[i].date = date THEN day ELSE days[i]]

\* addQuickStudySession(subjectId, minutes, date): targetDate = date ?? today
addQuickStudySession(st, subjectId, minutes, date) ==
  LET targetDate == IF date = Undef THEN Today ELSE date
      days == getOrCreateStudyDay(st.studyDays, targetDate)
      day == [days[FindDay(days, targetDate)] EXCEPT !.completedMinutes = @ + minutes]
  IN [i \in DOMAIN days |-> IF days[i].date = targetDate THEN day ELSE days[i]]

\* ---- utils/selectors.ts : computeStreak ---------------------------------
\* defaultSettings.streakMinLecturesOrMinutes
defaultStreak == [minLectures |-> 1, minMinutes |-> 15]

\* a day counts only when it meets both thresholds
meetsThreshold_both(day, thresholds) ==
  /\ Len(day.completedLectures) >= thresholds.minLectures
  /\ day.completedMinutes >= thresholds.minMinutes

\* one turn of the while loop: the day at the cursor counts or the walk stops
meetsThreshold(day, thresholds) ==
  LET meetsLecture == Len(day.completedLectures) >= thresholds.minLectures
      meetsMinutes == day.completedMinutes >= thresholds.minMinutes
  IN meetsLecture \/ meetsMinutes

\* the while loop from a cursor backwards
RECURSIVE streakFrom(_, _)
streakFrom(st, cursor) ==
  LET i == FindDay(st.studyDays, cursor)
  IN IF i = 0 THEN 0
     ELSE IF meetsThreshold(st.studyDays[i], st.settings.streakMinLecturesOrMinutes)
          THEN 1 + streakFrom(st, cursor - 1)
          ELSE 0

computeStreak(st) == streakFrom(st, Today)

\* ---- RevisionPlannerView.tsx : scheduleRevisionPass ----------------------
\* Math.max(lecture.estimatedMinutes / 2, 20); estimates of the model are even
revisionMinutes(estimatedMinutes) == Max(estimatedMinutes \div 2, 20)

\* pass.includeStatuses left undefined
NoStatuses == {"undefined"}

\* the lectures the pass selects, in lecture-collection order
eligibleLectures(st, subjectId, pass) ==
  LET eligibleStatuses == IF pass.includeStatuses = NoStatuses
                          THEN {"needs_revision", "done"}
                          ELSE pass.includeStatuses
  IN SelectSeq(st.lectures,
               LAMBDA l : /\ l.subjectId = subjectId
                          /\ l.status \in eligibleStatuses
                          /\ (pass.includeTags # {} => pass.includeTags \cap l.tags # {}))

revisionStart(subject, pass) ==
  IF pass.trigger = "after_finish" THEN Today + 1
  ELSE AddDays(subject.examDate,
               0 - (IF pass.offsetDaysBeforeExam = Undef THEN 3
                    ELSE pass.offsetDaysBeforeExam))

\* spreadDays that ignores pass.spreadOverDays
revisionSpread_default(pass, count) == Min(count, 3)

revisionSpread(pass, count) ==
  IF pass.spreadOverDays = Undef THEN Min(count, 3) ELSE pass.spreadOverDays

\* filtered.forEach: lectures index..Len(filtered), each through assignLectureToDay
RECURSIVE revisionAssign(_, _, _, _, _, _)
revisionAssign(st, subjectId, filtered, index, startDate, spreadDays) ==
  IF index > Len(filtered) THEN st.studyDays
  ELSE LET lecture == filtered[index]
           dayOffset == (index - 1) % spreadDays
           targetDate == AddDays(startDate, dayOffset)
           planned == [subjectId |-> subjectId, lectureId |-> lecture.id,
                       block |-> <<"revision", dayOffset + 1>>, isRevision |-> TRUE]
           days == assignLectureToDay(st, targetDate, planned,
                                      revisionMinutes(lecture.estimatedMinutes))
       IN revisionAssign([st EXCEPT !.studyDays = days], subjectId, filtered,
                         index + 1, startDate, spreadDays)

\* the calendar after the pass and the message it shows
scheduleRevisionPass(st, subjectId, pass) ==
  IF FindSubject(st.subjects, subjectId) = 0
  THEN [studyDays |-> st.studyDays, message |-> "none", eligible |-> <<>>]
  ELSE
  LET subject == st.subjects[FindSubject(st.subjects, subjectId)]
      filtered == eligibleLectures(st, subjectId, pass)
  IN IF Len(filtered) = 0
     THEN [studyDays |-> st.studyDays, message |-> "no match", eligible |-> <<>>]
     ELSE [studyDays |-> revisionAssign(st, subjectId, filtered, 1,
                                        revisionStart(subject, pass),
                                        revisionSpread(pass, Len(filtered))),
           message |-> "scheduled",
           eligible |-> [i \in DOMAIN filtered |-> filtered[i].id]]


\* ---- the inputs of the model ---------------------------------------------
SubjectIds == {"s1", "s2"}
\* a subject id that resolves to no subject
UnknownSubject == "s9"

\* (examDate, reservedRevisionDays), the same for both subjects
ExamConfigs == {<<InvalidDate, 0>>, <<0, 0>>, <<0, 1>>, <<2, 1>>}

\* (maxLecturesPerDay, maxMinutesPerDay)
CapConfigs == {<<Undef, Undef>>, <<1, Undef>>, <<2, 50>>}


Lecture(id, subjectId, order, minutes, tags) ==
  [id |-> id, subjectId |-> subjectId, order |-> order, status |-> "not_started",
   estimatedMinutes |-> minutes, tags |-> tags]

InitLectures ==
  << Lecture("L1", "s1", 2, 60, {"hard"}),
     Lecture("L2", "s1", 1, 30, {}),
     Lecture("L3", "s1", 2, 30, {}),
     Lecture("L4", "s2", 1, 30, {}) >>

\* the lectures whose status the user changes in the lecture detail view
MarkableLectures == {"L1"}
\* the lectures the user plans onto a day by hand
AssignableLectures == {"L1", "L4"}

RevisionPasses ==
  { [trigger |-> "after_finish", offsetDaysBeforeExam |-> Undef,
     includeStatuses |-> NoStatuses, includeTags |-> {}, spreadOverDays |-> Undef],
    [trigger |-> "before_exam", offsetDaysBeforeExam |-> 1,
     includeStatuses |-> {"done"}, includeTags |-> {}, spreadOverDays |-> 2] }

\* the lectures whose checkbox the user ticks in today's list
TickedLectures == {"L4"}

\* the dates the user selects in the dashboard
PickDates == {Today, Today + 1}

CountTargets(days, isRevision) ==
  SumSeq([i \in DOMAIN days |->
            Len(SelectSeq(days[i].targetLectures, LAMBDA t : t.isRevision = isRevision))])

MinutesInBound(days) == \A i \in DOMAIN days : days[i].targetMinutes <= MaxTargetMinutes

\* no revision pass
NoPass ==
  [trigger |-> "none", offsetDaysBeforeExam |-> Undef,
   includeStatuses |-> NoStatuses, includeTags |-> {}, spreadOverDays |-> Undef]

NoOp(op) ==
  [op |-> op, subjectId |-> "", plan |-> EmptyPlan(""), message |-> "none",
   eligible |-> <<>>, pass |-> NoPass, repeated |-> FALSE, streak |-> 0]

\* createEmptyState plus the subjects and lectures the user has entered
Init ==
  /\ \E e \in ExamConfigs :
       subjects = << [id |-> "s1", examDate |-> e[1], reservedRevisionDays |-> e[2]],
                     [id |-> "s2", examDate |-> e[1], reservedRevisionDays |-> e[2]] >>
  /\ lectures = InitLectures
  /\ \E c \in CapConfigs :
       settings = [maxLecturesPerDay |-> c[1], maxMinutesPerDay |-> c[2],
                   streakMinLecturesOrMinutes |-> defaultStreak]
  /\ studyDays = <<>>
  /\ focusSession = NoSession
  /\ last = NoOp("init")

\* state.tsx generatePlanForSubject: a throw inside the updater leaves the state as it was
GeneratePlanForSubject ==
  /\ MinutesInBound(studyDays)
  /\ \E subjectId \in SubjectIds \cup {UnknownSubject} :
      LET r == generateSubjectPlan(State, subjectId)
      IN /\ studyDays' = IF r.threw THEN studyDays ELSE r.studyDays
         /\ last' = [NoOp("plan") EXCEPT !.subjectId = subjectId,
                                          !.plan = [r EXCEPT !.studyDays = <<>>,
                                                            !.inputDays = <<>>]]
  /\ UNCHANGED <<subjects, lectures, settings, focusSession>>

AssignLectureToDay ==
  /\ CountTargets(studyDays, FALSE) < MaxTargets
  /\ MinutesInBound(studyDays)
  /\ \E date \in PickDates, i \in DOMAIN lectures :
       /\ lectures[i].id \in AssignableLectures
       /\ LET planned == [subjectId |-> lectures[i].subjectId, lectureId |-> lectures[i].id,
                       block |-> <<"morning", 0>>, isRevision |-> FALSE]
          IN studyDays' = assignLectureToDay(State, date, planned,
                                             lectures[i].estimatedMinutes)
  /\ last' = NoOp("other")
  /\ UNCHANGED <<subjects, lectures, settings, focusSession>>

ScheduleRevisionPass ==
  /\ CountTargets(studyDays, TRUE) < MaxRevisions
  /\ MinutesInBound(studyDays)
  /\ \E subjectId \in SubjectIds, pass \in RevisionPasses :
       LET r == scheduleRevisionPass(State, subjectId, pass)
       IN /\ studyDays' = r.studyDays
          /\ last' = [NoOp("revision") EXCEPT !.subjectId = subjectId,
                                              !.message = r.message,
                                              !.eligible = r.eligible]
  /\ UNCHANGED <<subjects, lectures, settings, focusSession>>

SetRestDay ==
  /\ \E date \in PickDates, flag \in BOOLEAN :
       studyDays' = setRestDay(State, date, flag)
  /\ last' = NoOp("other")
  /\ UNCHANGED <<subjects, lectures, settings, focusSession>>

MarkLectureStatus ==
  /\ \E id \in MarkableLectures, status \in {"done", "needs_revision"} :
       lectures' = markLectureStatus(State, id, status)
  /\ last' = NoOp("other")
  /\ UNCHANGED <<subjects, studyDays, settings, focusSession>>

\* the dashboard offers the checkbox for the targets of the selected day
TogglePlannedLectureCompletion ==
  /\ \E i \in DOMAIN studyDays, completed \in BOOLEAN :
       \E k \in DOMAIN studyDays[i].targetLectures :
         /\ studyDays[i].date = Today
         /\ studyDays[i].targetLectures[k].lectureId \in TickedLectures
         /\ LET r == togglePlannedLectureCompletion(State, studyDays[i].date,
                                                    studyDays[i].targetLectures[k],
                                                    completed)
            IN /\ studyDays' = r.studyDays
               /\ lectures' = r.lectures
  /\ last' = NoOp("other")
  /\ UNCHANGED <<subjects, settings, focusSession>>

Next ==
  \/ GeneratePlanForSubject
  \/ AssignLectureToDay
  \/ ScheduleRevisionPass
  \/ SetRestDay
  \/ MarkLectureStatus
  \/ TogglePlannedLectureCompletion

Spec == Init /\ [][Next]_vars


\* ---- the calendar under every operation that gets or creates a day -------
\* the minutes the user logs in one go
StudyMinutes == {15}
\* no minutes are logged on a day that would then hold more completed minutes
MaxCompletedMinutes == 15
\* the dates the user logs study time on
LogDates == {Today - 1, Today}
\* the lectures the user opens a focus session on
FocusLectures == {"L4"}
\* the session lengths, in minutes, the user starts a session with
FocusDurations == {5}

\* the lectures the user plans onto a day by hand
HandPlanned == {"L4"}
\* the subjects the user runs revision passes for
RevisedSubjects == {"s2"}

CalendarLectures ==
  << Lecture("L1", "s1", 1, 60, {"hard"}),
     Lecture("L4", "s2", 1, 30, {}) >>

CalendarInit ==
  /\ subjects = << [id |-> "s1", examDate |-> 2, reservedRevisionDays |-> 1],
                   [id |-> "s2", examDate |-> 2, reservedRevisionDays |-> 1] >>
  /\ lectures = CalendarLectures
  /\ settings = [maxLecturesPerDay |-> 2, maxMinutesPerDay |-> Undef,
                 streakMinLecturesOrMinutes |-> defaultStreak]
  /\ studyDays = <<>>
  /\ focusSession = NoSession
  /\ last = NoOp("init")

CompletedMinutesOn(days, date) ==
  IF FindDay(days, date) = 0 THEN 0 ELSE days[FindDay(days, date)].completedMinutes

\* the user plans a lecture onto a day by hand, also one the day already holds
PlanLectureByHand ==
  /\ MinutesInBound(studyDays)
  /\ \E date \in PickDates, i \in DOMAIN lectures :
       /\ lectures[i].id \in HandPlanned
       /\ LET planned == [subjectId |-> lectures[i].subjectId, lectureId |-> lectures[i].id,
                          block |-> <<"morning", 0>>, isRevision |-> FALSE]
          IN studyDays' = assignLectureToDay(State, date, planned,
                                             lectures[i].estimatedMinutes)
  /\ last' = NoOp("other")
  /\ UNCHANGED <<subjects, lectures, settings, focusSession>>

\* the user runs a revision pass, also one that ran before
RunRevisionPass ==
  /\ MinutesInBound(studyDays)
  /\ \E subjectId \in RevisedSubjects, pass \in RevisionPasses :
       LET r == scheduleRevisionPass(State, subjectId, pass)
       IN /\ studyDays' = r.studyDays
          /\ last' = [NoOp("revision") EXCEPT !.subjectId = subjectId,
                                              !.message = r.message,
                                              !.eligible = r.eligible,
                                              !.pass = pass,
                                              !.repeated = /\ last.op = "revision"
                                                           /\ last.subjectId = subjectId
                                                           /\ last.pass = pass]
  /\ UNCHANGED <<subjects, lectures, settings, focusSession>>

LogCompletedMinutes ==
  /\ \E date \in LogDates, minutes \in StudyMinutes :
       /\ CompletedMinutesOn(studyDays, date) + minutes <= MaxCompletedMinutes
       /\ studyDays' = logCompletedMinutes(State, date, minutes)
  /\ last' = NoOp("other")
  /\ UNCHANGED <<subjects, lectures, settings, focusSession>>

\* the quick-session form of the dashboard, with and without a selected date
AddQuickStudySession ==
  /\ \E date \in {Undef, Today - 1}, minutes \in StudyMinutes, subjectId \in {"s1"} :
       /\ CompletedMinutesOn(studyDays, IF date = Undef THEN Today ELSE date) + minutes
            <= MaxCompletedMinutes
       /\ studyDays' = addQuickStudySession(State, subjectId, minutes, date)
  /\ last' = NoOp("other")
  /\ UNCHANGED <<subjects, lectures, settings, focusSession>>

StartFocusSession ==
  /\ \E lectureId \in FocusLectures, durationMinutes \in FocusDurations :
       focusSession' = startFocusSession(State, lectureId, durationMinutes)
  /\ last' = NoOp("other")
  /\ UNCHANGED <<subjects, lectures, studyDays, settings>>

EndFocusSession ==
  /\ \E result \in {"finished", "not_finished", "needs_revision"},
         minutes \in {0} \cup StudyMinutes :
       /\ CompletedMinutesOn(studyDays, Today) + minutes <= MaxCompletedMinutes
       /\ LET r == endFocusSession(State, result, minutes)
          IN /\ studyDays' = r.studyDays
             /\ lectures' = r.lectures
             /\ focusSession' = r.focusSession
  /\ last' = NoOp("other")
  /\ UNCHANGED <<subjects, settings>>

CalendarNext ==
  \/ GeneratePlanForSubject
  \/ PlanLectureByHand
  \/ RunRevisionPass
  \/ SetRestDay
  \/ TogglePlannedLectureCompletion
  \/ LogCompletedMinutes
  \/ AddQuickStudySession
  \/ StartFocusSession
  \/ EndFocusSession

CalendarSpec == CalendarInit /\ [][CalendarNext]_vars


\* ---- computeStreak on the calendars of the last days -----------------------
\* the days up to today the calendar may hold
StreakDays == 4
StreakDates == [i \in 1..StreakDays |-> Today - StreakDays + i]

\* (completedMinutes, number of completed lectures) of a day; Absent: no StudyDay
Absent == <<Undef, Undef>>
DayShapes == {<<0, 0>>, <<15, 0>>, <<30, 0>>, <<0, 1>>, <<0, 2>>, <<15, 1>>}

\* streakMinLecturesOrMinutes as the settings may hold it
StreakThresholds == {defaultStreak, [minLectures |-> 2, minMinutes |-> 30]}

\* the entries the user ticked as completed on a day
CompletedPool ==
  << [subjectId |-> "s1", lectureId |-> "L1", block |-> <<"morning", 0>>, isRevision |-> FALSE],
     [subjectId |-> "s2", lectureId |-> "L4", block |-> <<"afternoon", 0>>, isRevision |-> FALSE] >>

StreakDay(date, shape) ==
  [NewDay(date) EXCEPT !.completedMinutes = shape[1],
                       !.completedLectures = SubSeq(CompletedPool, 1, shape[2])]

RECURSIVE StreakCalendar(_, _)
StreakCalendar(f, i) ==
  IF i > Len(StreakDates) THEN <<>>
  ELSE (IF f[i] = Absent THEN <<>> ELSE <<StreakDay(StreakDates[i], f[i])>>)
       \o StreakCalendar(f, i + 1)

StreakInit ==
  /\ subjects = << [id |-> "s1", examDate |-> 2, reservedRevisionDays |-> 1],
                   [id |-> "s2", examDate |-> 2, reservedRevisionDays |-> 1] >>
  /\ lectures = CalendarLectures
  /\ \E t \in StreakThresholds :
       settings = [maxLecturesPerDay |-> 2, maxMinutesPerDay |-> Undef,
                   streakMinLecturesOrMinutes |-> t]
  /\ \E f \in [DOMAIN StreakDates -> DayShapes \cup {Absent}] :
       studyDays = StreakCalendar(f, 1)
  /\ focusSession = NoSession
  /\ last = NoOp("init")

\* computeWeekStats asks for the streak of the current state
ComputeStreak ==
  /\ last.op = "init"
  /\ last' = [NoOp("streak") EXCEPT !.streak = computeStreak(State)]
  /\ UNCHANGED <<subjects, lectures, studyDays, settings, focusSession>>

StreakNext == ComputeStreak

StreakSpec == StreakInit /\ [][StreakNext]_vars


\* ---- the backward walk of computeStreak, one turn of the loop at a time ---------
\* thresholds the settings form accepts, 0 included
WalkThresholds ==
  StreakThresholds \cup { [minLectures |-> 0, minMinutes |-> 15],
                          [minLectures |-> 1, minMinutes |-> 0],
                          [minLectures |-> 0, minMinutes |-> 0] }

WalkShapes == {<<0, 0>>, <<15, 0>>, <<0, 1>>}

\* the locals of computeStreak: cursor, streak and the turns of the loop begun
WalkState(op, cursor, streak, steps) ==
  [cursor |-> cursor, steps |-> steps] @@ [NoOp(op) EXCEPT !.streak = streak]

WalkInit ==
  /\ subjects = << [id |-> "s1", examDate |-> 2, reservedRevisionDays |-> 1],
                   [id |-> "s2", examDate |-> 2, reservedRevisionDays |-> 1] >>
  /\ lectures = CalendarLectures
  /\ \E t \in WalkThresholds :
       settings = [maxLecturesPerDay |-> 2, maxMinutesPerDay |-> Undef,
                   streakMinLecturesOrMinutes |-> t]
  /\ \E f \in [DOMAIN StreakDates -> WalkShapes \cup {Absent}] :
       studyDays = StreakCalendar(f, 1)
  /\ focusSession = NoSession
  /\ last = WalkState("walking", Today, 0, 0)

\* a cursor that stays on its day
previousDay_stay(cursor) == cursor

\* cursor = cursor.subtract(1, 'day')
previousDay(cursor) == cursor - 1

\* one turn of while (true): look the cursor's day up, count it or break
WalkStep ==
  /\ last.op = "walking"
  /\ LET i == FindDay(studyDays, last.cursor)
     IN IF i # 0 /\ meetsThreshold(studyDays[i], settings.streakMinLecturesOrMinutes)
        THEN last' = [last EXCEPT !.streak = @ + 1,
                                  !.cursor = previousDay(@),
                                  !.steps = @ + 1]
        ELSE last' = [last EXCEPT !.op = "streak", !.steps = @ + 1]
  /\ UNCHANGED <<subjects, lectures, studyDays, settings, focusSession>>

WalkNext == WalkStep

\* the loop runs on once it is entered
WalkSpec == WalkInit /\ [][WalkNext]_vars /\ WF_vars(WalkStep)


\* ---- the planner and the revision scheduler on given subjects ---------------
\* (examDate, reservedRevisionDays, number of lectures, their status,
\*  maxLecturesPerDay, maxMinutesPerDay): one subject s1 with lectures of 45 minutes
ScenarioInputs ==
  { <<10, 2, 8, "not_started", 2, 120>>,
    <<0, 0, 5, "not_started", 2, 120>>,
    <<0, 0, 5, "not_started", 5, 240>>,
    <<10, 0, 4, "done", 2, 120>> }

ScenarioLectureIds == <<"L1", "L2", "L3", "L4", "L5", "L6", "L7", "L8">>

ScenarioLectures(count, status) ==
  [i \in 1..count |->
     [Lecture(ScenarioLectureIds[i], "s1", i, 45, {}) EXCEPT !.status = status]]

ScenarioPasses ==
  { [trigger |-> "before_exam", offsetDaysBeforeExam |-> 5,
     includeStatuses |-> {"done"}, includeTags |-> {}, spreadOverDays |-> 2],
    [trigger |-> "after_finish", offsetDaysBeforeExam |-> Undef,
     includeStatuses |-> NoStatuses, includeTags |-> {}, spreadOverDays |-> Undef] }

ScenarioInit ==
  /\ \E in \in ScenarioInputs :
       /\ subjects = << [id |-> "s1", examDate |-> in[1], reservedRevisionDays |-> in[2]] >>
       /\ lectures = ScenarioLectures(in[3], in[4])
       /\ settings = [maxLecturesPerDay |-> in[5], maxMinutesPerDay |-> in[6],
                      streakMinLecturesOrMinutes |-> defaultStreak]
  /\ studyDays = <<>>
  /\ focusSession = NoSession
  /\ last = NoOp("init")

\* the user runs one of the subject's revision passes, also one that ran before
ScenarioRevisionPass ==
  /\ \E pass \in ScenarioPasses :
       LET r == scheduleRevisionPass(State, "s1", pass)
       IN /\ studyDays' = r.studyDays
          /\ last' = [NoOp("revision") EXCEPT !.subjectId = "s1",
                                              !.message = r.message,
                                              !.eligible = r.eligible,
                                              !.pass = pass,
                                              !.repeated = /\ last.op = "revision"
                                                           /\ last.subjectId = "s1"
                                                           /\ last.pass = pass]
  /\ UNCHANGED <<subjects, lectures, settings, focusSession>>

ScenarioNext ==
  \/ GeneratePlanForSubject
  \/ ScenarioRevisionPass
  \/ PlanLectureByHand
  \/ SetRestDay

ScenarioSpec == ScenarioInit /\ [][ScenarioNext]_vars


\* ---- the planner on calendars with rest days and earlier plans ----------------
\* the user plans, flags rest days, plans a lecture by hand, changes a lecture's
\* status and ticks lectures off, in any order
PlannerNext ==
  \/ GeneratePlanForSubject
  \/ SetRestDay
  \/ PlanLectureByHand
  \/ MarkLectureStatus
  \/ TogglePlannedLectureCompletion

PlannerSpec == Init /\ [][PlannerNext]_vars


\* ---- planning again after lectures were ticked off -----------------------------
\* the lectures whose checkbox the user ticks in today's list
TickableLectures == {"L2", "L4"}

\* the checkbox of a target of today: togglePlannedLectureCompletion(today, planned, completed)
TickPlannedLecture ==
  /\ \E i \in DOMAIN studyDays, completed \in BOOLEAN :
       \E k \in DOMAIN studyDays[i].targetLectures :
         LET planned == studyDays[i].targetLectures[k]
             r == togglePlannedLectureCompletion(State, Today, planned, completed)
         IN /\ studyDays[i].date = Today
            /\ planned.lectureId \in TickableLectures
            /\ studyDays' = r.studyDays
            /\ lectures' = r.lectures
            /\ last' = [NoOp(IF completed THEN "tick" ELSE "untick")
                          EXCEPT !.subjectId = planned.subjectId,
                                 !.eligible = <<planned.lectureId>>]
  /\ UNCHANGED <<subjects, settings, focusSession>>

ReplanNext ==
  \/ GeneratePlanForSubject
  \/ TickPlannedLecture
  \/ LogCompletedMinutes

ReplanSpec == Init /\ [][ReplanNext]_vars


\* ---- the focus timer -------------------------------------------------------------
\* FocusMode.tsx elapsedMinutes, rounded as finalizeSession does: Math.max(1, Math.round(..))
sessionMinutes(session) ==
  Max(1, (session.durationMinutes * 60 - session.remainingSeconds + 30) \div 60)

\* the interval callback updateFocusSession(1, true): it runs while the session is
\* running, and once more when it was queued before a pause or the end of the
\* session was applied
TimerTick ==
  /\ \/ focusSession # NoSession /\ focusSession.isRunning
     \/ last.op \in {"pause", "endFocus"}
  /\ focusSession' = updateFocusSession(State, 1, TRUE)
  /\ last' = NoOp("tick")
  /\ UNCHANGED <<subjects, lectures, studyDays, settings>>

\* the effect that stops a running session whose clock has reached zero
TimerExpired ==
  /\ focusSession # NoSession
  /\ focusSession.remainingSeconds <= 0
  /\ focusSession.isRunning
  /\ focusSession' = updateFocusSession(State, 0, FALSE)
  /\ last' = NoOp("pause")
  /\ UNCHANGED <<subjects, lectures, studyDays, settings>>

\* handleToggle: pause or resume
ToggleTimer ==
  /\ focusSession # NoSession
  /\ focusSession' = updateFocusSession(State, 0, ~focusSession.isRunning)
  /\ last' = NoOp(IF focusSession.isRunning THEN "pause" ELSE "resume")
  /\ UNCHANGED <<subjects, lectures, studyDays, settings>>

\* handleEnd: stop the clock of a running session and ask for the result
HandleEnd ==
  /\ focusSession # NoSession
  /\ focusSession.isRunning
  /\ focusSession' = updateFocusSession(State, 0, FALSE)
  /\ last' = NoOp("pause")
  /\ UNCHANGED <<subjects, lectures, studyDays, settings>>

\* finalizeSession(result): endFocusSession with the minutes of the session, or
\* with the chosen duration when the component holds no session
FinalizeSession ==
  /\ \E result \in {"finished", "not_finished", "needs_revision"},
         desiredDuration \in FocusDurations :
       LET minutes == IF focusSession # NoSession THEN sessionMinutes(focusSession)
                      ELSE desiredDuration
           r == endFocusSession(State, result, minutes)
       IN /\ CompletedMinutesOn(studyDays, Today) + minutes <= MaxCompletedMinutes
          /\ studyDays' = r.studyDays
          /\ lectures' = r.lectures
          /\ focusSession' = r.focusSession
  /\ last' = NoOp("endFocus")
  /\ UNCHANGED <<subjects, settings>>

FocusNext ==
  \/ StartFocusSession
  \/ TimerTick
  \/ TimerExpired
  \/ ToggleTimer
  \/ HandleEnd
  \/ FinalizeSession

FocusSpec == CalendarInit /\ [][FocusNext]_vars


\* ---- properties of a planner run -----------------------------------------
\* the state right after generatePlanForSubject returned a plan
PlanReturned == last.op = "plan" /\ ~last.plan.threw
\* ... and the subject had lectures to place
PlanRan == PlanReturned /\ Len(last.plan.pending) > 0

PlanningSet == {last.plan.planningDates[i] : i \in DOMAIN last.plan.planningDates}

TargetsOn(days, date) ==
  IF FindDay(days, date) = 0 THEN <<>> ELSE days[FindDay(days, date)].targetLectures

\* the places (day, position) of the first-pass entries of a lecture on the planning days
FirstPassSlots(lectureId) ==
  UNION { { <<d, k>> : k \in { n \in DOMAIN TargetsOn(studyDays, d) :
                                 /\ TargetsOn(studyDays, d)[n].lectureId = lectureId
                                 /\ ~TargetsOn(studyDays, d)[n].isRevision } }
          : d \in PlanningSet }

\* C1: after a planner run for a subject with pending lectures, every lecture of
\* the subject whose status is not done has exactly one non-revision entry among
\* the targets of the planning days: none is lost, none is duplicated.
C1_Conservation ==
  PlanRan =>
    \A i \in DOMAIN lectures :
      (lectures[i].subjectId = last.subjectId /\ lectures[i].status # "done")
        => Cardinality(FirstPassSlots(lectures[i].id)) = 1

\* a run over two planning days or more, with a rest day inside the range, for at
\* least two pending lectures, one of which also has a revision entry on a planning day
C1_Witness ==
  /\ PlanRan
  /\ Len(last.plan.pending) >= 2
  /\ Len(last.plan.planningDates) >= 2
  /\ Len(last.plan.rangeDates) > Len(last.plan.planningDates)
  /\ \E d \in PlanningSet : \E k \in DOMAIN TargetsOn(studyDays, d) :
       /\ TargetsOn(studyDays, d)[k].isRevision
       /\ \E n \in DOMAIN last.plan.pending :
            last.plan.pending[n] = TargetsOn(studyDays, d)[k].lectureId


\* ---- capacity -------------------------------------------------------------
CapsFinite == settings.maxLecturesPerDay # Undef /\ settings.maxMinutesPerDay # Undef

EstimateOf(lectureId) == lectures[FindLecture(lectures, lectureId)].estimatedMinutes

PendingEstimates == {EstimateOf(last.plan.pending[i]) : i \in DOMAIN last.plan.pending}
MinEstimate == CHOOSE m \in PendingEstimates : \A n \in PendingEstimates : m <= n
MaxEstimate == CHOOSE m \in PendingEstimates : \A n \in PendingEstimates : m >= n

\* the estimated minutes of the lectures this run put on a day
RunMinutes(d) ==
  SumSeq([k \in DOMAIN last.plan.dayAssignments[d] |->
            EstimateOf(last.plan.dayAssignments[d][k].lectureId)])

\* no planning day holds more than the caps allow, and the run is not flagged
CapsRespected ==
  /\ \A d \in PlanningSet :
       /\ Len(last.plan.dayAssignments[d]) <= settings.maxLecturesPerDay
       /\ RunMinutes(d) <= settings.maxMinutesPerDay
  /\ ~last.plan.overloaded

RoomOn(d) ==
  Min(settings.maxLecturesPerDay,
      Max(0, settings.maxMinutesPerDay - last.plan.startMinutes[d]) \div MaxEstimate)

TotalRoom ==
  SumSeq([i \in DOMAIN last.plan.planningDates |-> RoomOn(last.plan.planningDates[i])])

FirstPassOf(targets, subjectId) ==
  SelectSeq(targets, LAMBDA t : t.subjectId = subjectId /\ ~t.isRevision)

SameFraction(a, b) == a.num * b.den = b.num * a.den

\* C3: a second generateSubjectPlan on the state the first one returned, same today and
\* nothing changed in between, returns the same newAverage and leaves on every planning
\* day the same first-pass entries of the subject.
C3_ReplanIdempotent ==
  PlanReturned =>
    LET again == generateSubjectPlan(State, last.subjectId)
    IN /\ SameFraction(again.newAverage, last.plan.newAverage)
       /\ \A d \in PlanningSet :
            FirstPassOf(TargetsOn(again.studyDays, d), last.subjectId)
              = FirstPassOf(TargetsOn(studyDays, d), last.subjectId)


\* ---- what a step leaves alone ---------------------------------------------
IsPrefix(a, b) == Len(a) <= Len(b) /\ SubSeq(b, 1, Len(a)) = a

ForeignEntries(targets, subjectId) ==
  SelectSeq(targets, LAMBDA t : t.isRevision \/ t.subjectId # subjectId)

\* C5: generateSubjectPlan for a subject leaves, on every day of the calendar, the
\* revision-flagged entries and the entries of other subjects on their day, unchanged and
\* in the same order; days that are not planning days keep their targetLectures whole.
C5_PlanKeepsForeignTargets ==
  [][ (last'.op = "plan" /\ ~last'.plan.threw) =>
        /\ \A i \in DOMAIN studyDays :
             LET d == studyDays[i].date
             IN /\ FindDay(studyDays', d) # 0
                /\ ForeignEntries(TargetsOn(studyDays', d), last'.subjectId)
                     = ForeignEntries(studyDays[i].targetLectures, last'.subjectId)
                /\ (\A k \in DOMAIN last'.plan.planningDates :
                       last'.plan.planningDates[k] # d)
                     => TargetsOn(studyDays', d) = studyDays[i].targetLectures
        /\ \A j \in DOMAIN studyDays' :
             FindDay(studyDays, studyDays'[j].date) = 0
               => ForeignEntries(studyDays'[j].targetLectures, last'.subjectId) = <<>> ]_vars

\* a run that placed lectures on a planning day holding a revision entry of the subject
\* and an entry of another subject, with a day outside the planning days holding targets
C5_Witness ==
  /\ PlanRan
  /\ \E d \in PlanningSet :
       /\ Len(last.plan.dayAssignments[d]) > 0
       /\ \E k \in DOMAIN TargetsOn(studyDays, d) :
            /\ TargetsOn(studyDays, d)[k].isRevision
            /\ TargetsOn(studyDays, d)[k].subjectId = last.subjectId
       /\ \E k \in DOMAIN TargetsOn(studyDays, d) :
            TargetsOn(studyDays, d)[k].subjectId # last.subjectId
  /\ \E i \in DOMAIN studyDays :
       /\ studyDays[i].date \notin PlanningSet
       /\ Len(studyDays[i].targetLectures) > 0


\* ---- the runs that place nothing ------------------------------------------
HasPending(subjectId) ==
  \E i \in DOMAIN lectures :
    lectures[i].subjectId = subjectId /\ lectures[i].status # "done"

\* C6: generateSubjectPlan with a subjectId that matches no subject fails with
\* 'Subject not found' and the snapshot stays exactly as it was.
C6_NotFound ==
  [][ (last'.op = "plan" /\ FindSubject(subjects, last'.subjectId) = 0) =>
        /\ last'.plan.threw
        /\ studyDays' = studyDays
        /\ lectures' = lectures
        /\ subjects' = subjects
        /\ settings' = settings ]_vars

\* the failed call found a calendar with targets in it
C6_Witness ==
  /\ last.op = "plan"
  /\ last.plan.threw
  /\ FindSubject(subjects, last.subjectId) = 0
  /\ \E i \in DOMAIN studyDays : Len(studyDays[i].targetLectures) > 0

\* C7: when the subject has no lecture with status other than done, generateSubjectPlan
\* returns the calendar unchanged, newAverage = 0, overloaded = false and no warning,
\* whatever the exam date and the rest-day flags are.
C7_NothingPending ==
  [][ ( /\ last'.op = "plan"
        /\ FindSubject(subjects, last'.subjectId) # 0
        /\ ~HasPending(last'.subjectId) ) =>
        /\ ~last'.plan.threw
        /\ studyDays' = studyDays
        /\ last'.plan.newAverage.num = 0
        /\ ~last'.plan.overloaded
        /\ last'.plan.warnings = <<>> ]_vars

\* such a call on a calendar with a completed lecture and a rest day, for a subject
\* whose cutoff is not after today
C7_Witness ==
  /\ last.op = "plan"
  /\ FindSubject(subjects, last.subjectId) # 0
  /\ ~HasPending(last.subjectId)
  /\ ~IsAfter(cutoffOf(subjects[FindSubject(subjects, last.subjectId)]), Today)
  /\ \E i \in DOMAIN studyDays : Len(studyDays[i].completedLectures) > 0
  /\ \E i \in DOMAIN studyDays : studyDays[i].isRestDay

\* ---- overload and warnings ------------------------------------------------
\* C8: if for some pending lecture no planning day was under both caps when it was
\* placed, the run returns overloaded = true.
C8_OverloadReported == (PlanRan /\ last.plan.noFit # {}) => last.plan.overloaded

LastPlanningDate == last.plan.planningDates[Len(last.plan.planningDates)]

\* C9: a pending lecture for which no planning day was under both caps is assigned to
\* the last planning day and to no other.
C9_FallbackToLastDay ==
  PlanRan =>
    \A id \in last.plan.noFit : \A d \in PlanningSet :
      (\E k \in DOMAIN last.plan.dayAssignments[d] :
          last.plan.dayAssignments[d][k].lectureId = id) <=> d = LastPlanningDate

\* C10: with pending lectures, the exam-is-close warning is emitted if and only if the
\* cutoff is invalid or not strictly after today (so also when cutoff = today).
C10_WarningIffCutoffNotAfterToday ==
  PlanRan =>
    LET cutoff == cutoffOf(subjects[FindSubject(subjects, last.subjectId)])
    IN (\E k \in DOMAIN last.plan.warnings : last.plan.warnings[k] = ExamCloseWarning)
         <=> (~IsValid(cutoff) \/ cutoff <= Today)


\* ---- the calendar ---------------------------------------------------------
\* C11: the calendar is sorted ascending by date in every state reached from the
\* empty calendar through the operations that can create a StudyDay.
C11_SortedCalendar ==
  \A i, j \in DOMAIN studyDays : i < j => studyDays[i].date <= studyDays[j].date

\* C12: every entry of a day's completedLectures has its lectureId among the day's
\* targetLectures or is revision-flagged.
C12_CompletedWithinTarget ==
  \A i \in DOMAIN studyDays :
    \A k \in DOMAIN studyDays[i].completedLectures :
      \/ studyDays[i].completedLectures[k].isRevision
      \/ \E n \in DOMAIN studyDays[i].targetLectures :
           studyDays[i].targetLectures[n].lectureId
             = studyDays[i].completedLectures[k].lectureId

\* C13: no day's targetLectures holds two entries with the same lectureId,
\* subjectId and isRevision flag.
C13_TargetUniqueness ==
  \A i \in DOMAIN studyDays :
    \A k, n \in DOMAIN studyDays[i].targetLectures :
      ( /\ k < n
        /\ studyDays[i].targetLectures[k].lectureId = studyDays[i].targetLectures[n].lectureId
        /\ studyDays[i].targetLectures[k].subjectId = studyDays[i].targetLectures[n].subjectId )
      => studyDays[i].targetLectures[k].isRevision # studyDays[i].targetLectures[n].isRevision

\* a day that holds a first-pass entry and a revision entry of one lecture, while
\* another day holds the lecture as well
C13_Witness ==
  \E i, j \in DOMAIN studyDays :
    /\ i # j
    /\ \E k, n \in DOMAIN studyDays[i].targetLectures :
         /\ k # n
         /\ studyDays[i].targetLectures[k].lectureId = studyDays[i].targetLectures[n].lectureId
         /\ \E m \in DOMAIN studyDays[j].targetLectures :
              studyDays[j].targetLectures[m].lectureId
                = studyDays[i].targetLectures[k].lectureId

DatesOf(days) == {days[i].date : i \in DOMAIN days}
UniqueDates(days) == \A i, j \in DOMAIN days : days[i].date = days[j].date => i = j

\* C14: the calendar holds at most one StudyDay for each date, and a step never
\* removes a StudyDay: every date of the calendar is still there afterwards.
C14_UniqueDayPerDate ==
  /\ UniqueDates(studyDays)
  /\ [][UniqueDates(studyDays') /\ DatesOf(studyDays) \subseteq DatesOf(studyDays')]_vars

\* a calendar of three days, one of which was fetched again by several operations:
\* it is a rest day, holds logged minutes, a target and a completed lecture
C14_Witness ==
  /\ Len(studyDays) >= 3
  /\ \E i \in DOMAIN studyDays :
       /\ studyDays[i].isRestDay
       /\ studyDays[i].completedMinutes > 0
       /\ Len(studyDays[i].targetLectures) > 0
       /\ Len(studyDays[i].completedLectures) > 0


\* ---- the streak ------------------------------------------------------------
\* the calendar holds a StudyDay for the date that meets one of the two thresholds
Qualifies(date) ==
  \E i \in DOMAIN studyDays :
    /\ studyDays[i].date = date
    /\ \/ Len(studyDays[i].completedLectures)
            >= settings.streakMinLecturesOrMinutes.minLectures
       \/ studyDays[i].completedMinutes >= settings.streakMinLecturesOrMinutes.minMinutes

\* C15: computeStreak returns 0 when today has no StudyDay or meets neither
\* threshold, and returns k >= 1 exactly when today and the k-1 days before it
\* qualify and the day before those k days is absent or meets neither threshold.
C15_StreakDefinition ==
  last.op = "streak" =>
    /\ last.streak >= 0
    /\ ~Qualifies(Today) => last.streak = 0
    /\ \A k \in 1..(StreakDays + 1) :
         last.streak = k
           <=> /\ \A d \in 0..(k - 1) : Qualifies(Today - d)
               /\ ~Qualifies(Today - k)

\* a streak of two days or more that ends at a day the calendar holds, one day by
\* minutes alone and one by lectures alone
C15_Witness ==
  /\ last.op = "streak"
  /\ last.streak >= 2
  /\ FindDay(studyDays, Today - last.streak) # 0
  /\ \E i, j \in DOMAIN studyDays :
       /\ studyDays[i].date > Today - last.streak
       /\ studyDays[j].date > Today - last.streak
       /\ Len(studyDays[i].completedLectures) = 0
       /\ studyDays[j].completedMinutes = 0


\* ---- the scenarios ---------------------------------------------------------
IsScenario(in) ==
  /\ Len(subjects) = 1
  /\ subjects[1] = [id |-> "s1", examDate |-> in[1], reservedRevisionDays |-> in[2]]
  /\ lectures = ScenarioLectures(in[3], in[4])
  /\ settings.maxLecturesPerDay = in[5]
  /\ settings.maxMinutesPerDay = in[6]

ScenarioA == IsScenario(<<10, 2, 8, "not_started", 2, 120>>)
ScenarioB == IsScenario(<<0, 0, 5, "not_started", 2, 120>>)
               \/ IsScenario(<<0, 0, 5, "not_started", 5, 240>>)
ScenarioC == IsScenario(<<10, 0, 4, "done", 2, 120>>)

\* the planning days a run gave exactly n lectures
DaysGiven(plan, n) ==
  {i \in DOMAIN plan.planningDates : Len(plan.dayAssignments[plan.planningDates[i]]) = n}

\* C16 as stated: in scenario A, planned on the empty calendar, the planning
\* window has 8 days, 4 of them get 2 lectures each, overloaded = false and
\* newAverage = 1.0.
C16_AsStated ==
  [][ (ScenarioA /\ studyDays = <<>> /\ last'.op = "plan" /\ last'.subjectId = "s1")
      => /\ Len(last'.plan.planningDates) = 8
         /\ Cardinality(DaysGiven(last'.plan, 2)) = 4
         /\ Cardinality(DaysGiven(last'.plan, 0)) = 4
         /\ ~last'.plan.overloaded
         /\ SameFraction(last'.plan.newAverage, [num |-> 1, den |-> 1]) ]_vars

\* C16 (amended): in scenario A, planned on the empty calendar, the planning
\* window has the 9 days today .. today+8, the first 4 of them get 2 lectures each
\* in lecture order and the other 5 none, overloaded = false and newAverage = 8/9.
C16_ScenarioA ==
  [][ (ScenarioA /\ studyDays = <<>> /\ last'.op = "plan" /\ last'.subjectId = "s1")
      => /\ last'.plan.planningDates = [i \in 1..9 |-> Today + (i - 1)]
         /\ DaysGiven(last'.plan, 2) = 1..4
         /\ DaysGiven(last'.plan, 0) = 5..9
         /\ \A d \in 0..3 :
              [k \in 1..2 |-> TargetsOn(studyDays', Today + d)[k].lectureId]
                = <<ScenarioLectureIds[2 * d + 1], ScenarioLectureIds[2 * d + 2]>>
         /\ ~last'.plan.overloaded
         /\ last'.plan.warnings = <<>>
         /\ SameFraction(last'.plan.newAverage, [num |-> 8, den |-> 9]) ]_vars

\* scenario A right after its plan: nine days, none a rest day, 8 targets in all
C16_Witness ==
  /\ ScenarioA
  /\ last.op = "plan" /\ last.subjectId = "s1"
  /\ Len(studyDays) = 9
  /\ \A i \in DOMAIN studyDays : ~studyDays[i].isRestDay
  /\ CountTargets(studyDays, FALSE) = 8
  /\ CountTargets(studyDays, TRUE) = 0

\* C17: in scenario B (exam today, 5 pending lectures, caps 2 and 120 or 5 and
\* 240), planned on the empty calendar, the run emits the exam-is-very-close
\* warning, its window is a single day that takes all 5 lectures, and
\* overloaded = true.
C17_ScenarioB ==
  [][ (ScenarioB /\ studyDays = <<>> /\ last'.op = "plan" /\ last'.subjectId = "s1")
      => /\ \E i \in DOMAIN last'.plan.warnings : last'.plan.warnings[i] = ExamCloseWarning
         /\ Len(last'.plan.rangeDates) = 1
         /\ Cardinality(DaysGiven(last'.plan, 5)) = 1
         /\ last'.plan.overloaded ]_vars

\* ---- the revision scheduler ---------------------------------------------------
\* startDate and spreadDays of a pass for the subject of the run
PassStart(subjectId, pass) ==
  IF pass.trigger = "after_finish" THEN Today + 1
  ELSE subjects[FindSubject(subjects, subjectId)].examDate - pass.offsetDaysBeforeExam

PassSpread(pass, count) ==
  IF pass.spreadOverDays = Undef THEN Min(count, 3) ELSE pass.spreadOverDays

RevisionEntry(subjectId, lectureId, dayOffset) ==
  [subjectId |-> subjectId, lectureId |-> lectureId,
   block |-> <<"revision", dayOffset + 1>>, isRevision |-> TRUE]

\* the entries of a lecture among the targets of a date
EntriesOf(days, date, lectureId) ==
  SelectSeq(TargetsOn(days, date), LAMBDA t : t.lectureId = lectureId)

RevisionsOn(days, date) == Len(SelectSeq(TargetsOn(days, date), LAMBDA t : t.isRevision))

\* the date of the eligible lecture at position i (i - 1 is its zero-based index)
PassDate(run, i) ==
  PassStart(run.subjectId, run.pass)
    + ((i - 1) % PassSpread(run.pass, Len(run.eligible)))

PassEntry(run, i) ==
  RevisionEntry(run.subjectId, run.eligible[i],
                (i - 1) % PassSpread(run.pass, Len(run.eligible)))

\* C18 as stated: after a pass that scheduled, the eligible lecture of zero-based
\* index i has the entry {block revision-(i mod spreadDays + 1), isRevision} among
\* the targets of startDate + (i mod spreadDays).
C18_AsStated ==
  (last.op = "revision" /\ last.message = "scheduled")
    => \A i \in DOMAIN last.eligible :
         Len(SelectSeq(TargetsOn(studyDays, PassDate(last, i)),
                       LAMBDA t : t = PassEntry(last, i))) > 0

\* C18 (amended): the eligible lecture of zero-based index i gets that entry on
\* startDate + (i mod spreadDays) unless the day already holds an entry with its
\* lectureId, in which case the day's entries of the lecture stay as they were;
\* in scenario C, on days today+5 and today+6 without revision entries, the pass
\* {before_exam, offset 5, spread 2} leaves 2 revision entries on each.
C18_RoundRobin ==
  [][ (last'.op = "revision" /\ last'.message = "scheduled")
      => /\ \A i \in DOMAIN last'.eligible :
              IF Len(EntriesOf(studyDays, PassDate(last', i), last'.eligible[i])) > 0
              THEN EntriesOf(studyDays', PassDate(last', i), last'.eligible[i])
                     = EntriesOf(studyDays, PassDate(last', i), last'.eligible[i])
              ELSE EntriesOf(studyDays', PassDate(last', i), last'.eligible[i])
                     = <<PassEntry(last', i)>>
         /\ ( /\ ScenarioC
              /\ last'.pass.trigger = "before_exam"
              /\ TargetsOn(studyDays, Today + 5) = <<>>
              /\ TargetsOn(studyDays, Today + 6) = <<>> )
            => /\ RevisionsOn(studyDays', Today + 5) = 2
               /\ RevisionsOn(studyDays', Today + 6) = 2 ]_vars

\* scenario C after its before_exam pass, and a day of the calendar where an
\* after_finish pass met a lecture the user had planned there by hand
C18_Witness ==
  /\ ScenarioC
  /\ last.op = "revision" /\ last.message = "scheduled"
  /\ RevisionsOn(studyDays, Today + 5) = 2
  /\ RevisionsOn(studyDays, Today + 6) = 2
  /\ \E i \in DOMAIN studyDays :
       /\ RevisionsOn(studyDays, studyDays[i].date) > 0
       /\ \E k \in DOMAIN studyDays[i].targetLectures :
            /\ ~studyDays[i].targetLectures[k].isRevision
            /\ Len(EntriesOf(studyDays, studyDays[i].date,
                              studyDays[i].targetLectures[k].lectureId)) = 1

\* C19: a revision pass run again right after itself, for the same subject and
\* pass, leaves the calendar as the first run left it: no target entry is added
\* and no day's targetMinutes changes.
C19_RevisionIdempotent ==
  [][ ( /\ last.op = "revision"
        /\ last'.op = "revision"
        /\ last'.subjectId = last.subjectId
        /\ last'.pass = last.pass )
      => studyDays' = studyDays ]_vars

\* the second run of a pass that scheduled revision entries for several lectures
C19_Witness ==
  /\ last.op = "revision"
  /\ last.repeated
  /\ last.message = "scheduled"
  /\ Len(last.eligible) >= 2
  /\ \A i \in DOMAIN last.eligible :
       Len(EntriesOf(studyDays, PassDate(last, i), last.eligible[i])) > 0


\* ---- the snapshot a planner run is given ------------------------------------
\* C20: a planner run leaves the StudyDay records of the snapshot it is given as
\* they were (targetLectures, targetMinutes, completedLectures and the rest), and
\* running the updater again on that snapshot returns the same calendar.
C20_SnapshotPurity ==
  [][ last'.op = "plan"
      => LET r == generateSubjectPlan(State, last'.subjectId)
         IN /\ r.inputDays = studyDays
            /\ generateSubjectPlan([State EXCEPT !.studyDays = r.inputDays],
                                   last'.subjectId).studyDays = r.studyDays ]_vars

\* ---- what a run leaves on the planning days ---------------------------------
DayOn(days, date) == days[FindDay(days, date)]

\* the estimated minutes of the non-revision entries of a target list
FirstPassMinutes(targets) ==
  SumSeq([k \in DOMAIN targets |->
            IF targets[k].isRevision THEN 0 ELSE EstimateOf(targets[k].lectureId)])

\* C21: after a planner run, every planning day that received at least one
\* assignment has targetMinutes equal to the sum of the estimatedMinutes of the
\* non-revision entries of its targetLectures; minutes of entries the run removed
\* and minutes of revision entries are not counted.
C21_TargetMinutesRecomputed ==
  PlanRan =>
    \A d \in PlanningSet :
      Len(last.plan.dayAssignments[d]) > 0
        => DayOn(studyDays, d).targetMinutes
             = FirstPassMinutes(DayOn(studyDays, d).targetLectures)

CompletedOn(days, date) ==
  IF FindDay(days, date) = 0 THEN <<>> ELSE days[FindDay(days, date)].completedLectures

HoldsTarget(days, date, lectureId) ==
  \E k \in DOMAIN TargetsOn(days, date) : TargetsOn(days, date)[k].lectureId = lectureId

\* C22: on each planning day a planner run removes from completedLectures exactly
\* the entries that are not revision-flagged and whose lectureId is not among the
\* day's targetLectures after the run; every other completed entry, also one of
\* another subject whose lecture is still a target of the day, is kept in place.
C22_CompletedDropRule ==
  [][ (last'.op = "plan" /\ ~last'.plan.threw /\ Len(last'.plan.pending) > 0)
      => \A k \in DOMAIN last'.plan.planningDates :
           LET d == last'.plan.planningDates[k]
           IN CompletedOn(studyDays', d)
                = SelectSeq(CompletedOn(studyDays, d),
                            LAMBDA c : c.isRevision
                                       \/ HoldsTarget(studyDays', d, c.lectureId)) ]_vars

\* ---- rest days ---------------------------------------------------------------
IsRestDay(days, date) == FindDay(days, date) # 0 /\ days[FindDay(days, date)].isRestDay

HasWarning(plan, text) == \E k \in DOMAIN plan.warnings : plan.warnings[k] = text

\* the day of the calendar that holds the run's assignment of a pending lecture
PlacedOn(days, plan, lectureId) ==
  {d \in DOMAIN plan.dayAssignments :
     /\ \E k \in DOMAIN plan.dayAssignments[d] :
          plan.dayAssignments[d][k].lectureId = lectureId
     /\ \E k \in DOMAIN TargetsOn(days, d) :
          /\ TargetsOn(days, d)[k].lectureId = lectureId
          /\ ~TargetsOn(days, d)[k].isRevision}

\* C23: while the day range holds a day that is not a rest day, a planner run
\* assigns no lecture to a rest day (the rest days of the range keep their targets
\* as they were and the run gives no rest-day warning); when every day of the
\* range is a rest day the run gives the rest-day warning and places the lectures
\* on the days of the full range.
C23_RestDays ==
  [][ (last'.op = "plan" /\ ~last'.plan.threw /\ Len(last'.plan.pending) > 0)
      => LET plan == last'.plan
             range == {plan.rangeDates[k] : k \in DOMAIN plan.rangeDates}
             rest == {d \in range : IsRestDay(studyDays, d)}
         IN /\ \A n \in DOMAIN plan.pending :
                 /\ PlacedOn(studyDays', plan, plan.pending[n]) # {}
                 /\ PlacedOn(studyDays', plan, plan.pending[n]) \subseteq range
            /\ IF rest # range
               THEN /\ ~HasWarning(plan, RestDaysWarning)
                    /\ \A d \in rest :
                         /\ d \notin DOMAIN plan.dayAssignments
                         /\ TargetsOn(studyDays', d) = TargetsOn(studyDays, d)
                         /\ \A n \in DOMAIN plan.pending :
                              d \notin PlacedOn(studyDays', plan, plan.pending[n])
               ELSE /\ HasWarning(plan, RestDaysWarning)
                    /\ plan.planningDates = plan.rangeDates ]_vars

\* a run whose range holds a rest day with a target on it and days that are not
\* rest days, of which more than one received a lecture
C23_Witness ==
  /\ PlanRan
  /\ \E d \in {last.plan.rangeDates[k] : k \in DOMAIN last.plan.rangeDates} :
       /\ IsRestDay(studyDays, d)
       /\ Len(TargetsOn(studyDays, d)) > 0
  /\ Cardinality({d \in PlanningSet : Len(last.plan.dayAssignments[d]) > 0}) >= 2

\* ---- stale assignments ---------------------------------------------------------
\* C24: after a planner run for a subject with pending lectures, every non-revision
\* target entry of the subject on a day of the day range (today through the range
\* end, rest days included) is one this run assigned to that day: no earlier
\* non-revision assignment of the subject is left inside the range.
C24_StaleStripped ==
  PlanRan =>
    \A n \in DOMAIN last.plan.rangeDates :
      LET d == last.plan.rangeDates[n]
          own == FirstPassOf(TargetsOn(studyDays, d), last.subjectId)
      IN IF d \in PlanningSet THEN own = last.plan.dayAssignments[d] ELSE own = <<>>

\* ---- the order of the schedule -------------------------------------------------
OrderOf(lectureId) == lectures[FindLecture(lectures, lectureId)].order

\* the planning days the run assigned a lecture to
AssignedDays(plan, lectureId) ==
  {d \in DOMAIN plan.dayAssignments :
     \E k \in DOMAIN plan.dayAssignments[d] :
       plan.dayAssignments[d][k].lectureId = lectureId}

\* C25: in the plan a run produces, for any two pending lectures a and b of the
\* subject with order(a) < order(b), the day assigned to a is not later than the
\* day assigned to b.
C25_ScheduleFollowsOrder ==
  PlanRan =>
    \A i, j \in DOMAIN last.plan.pending :
      OrderOf(last.plan.pending[i]) < OrderOf(last.plan.pending[j])
        => \A da \in AssignedDays(last.plan, last.plan.pending[i]) :
             \A db \in AssignedDays(last.plan, last.plan.pending[j]) : da <= db

\* ---- where overload lands ------------------------------------------------------
\* the number of lectures a run gave a planning day
GivenTo(plan, d) == Len(plan.dayAssignments[d])

\* more lectures than maxLecturesPerDay; an absent cap is never exceeded
OverLectureCap(n) == settings.maxLecturesPerDay # Undef /\ n > settings.maxLecturesPerDay

\* C26: in a planner run every planning day other than the first receives at most
\* maxLecturesPerDay assignments from the run, and overloaded is true if and only
\* if the first planning day receives more than maxLecturesPerDay assignments
\* from the run.
C26_OverloadOnFirstDay ==
  PlanRan =>
    /\ \A k \in DOMAIN last.plan.planningDates :
         k > 1 => ~OverLectureCap(GivenTo(last.plan, last.plan.planningDates[k]))
    /\ last.plan.overloaded
         <=> OverLectureCap(GivenTo(last.plan, last.plan.planningDates[1]))

\* an overloaded run over two planning days or more: the first day holds more than
\* the cap, another day is filled up to the cap
C26_Witness ==
  /\ PlanRan
  /\ last.plan.overloaded
  /\ Len(last.plan.planningDates) >= 2
  /\ OverLectureCap(GivenTo(last.plan, last.plan.planningDates[1]))
  /\ \E k \in DOMAIN last.plan.planningDates :
       /\ k > 1
       /\ GivenTo(last.plan, last.plan.planningDates[k]) = settings.maxLecturesPerDay

\* ---- planning again and the streak ---------------------------------------------
\* C27: after togglePlannedLectureCompletion has marked a lecture planned for
\* today as completed, a planner run for that lecture's subject leaves today's
\* completedLectures as they were, and computeStreak returns the same value
\* before and after the run.
C27_ReplanKeepsStreak ==
  [][ (last.op = "tick" /\ last'.op = "plan" /\ last'.subjectId = last.subjectId)
      => /\ CompletedOn(studyDays', Today) = CompletedOn(studyDays, Today)
         /\ computeStreak([State EXCEPT !.studyDays = studyDays'])
              = computeStreak(State) ]_vars

\* ---- the revision entries of a pass ---------------------------------------------
HasRevisionEntry(days, date, lectureId) ==
  \E k \in DOMAIN TargetsOn(days, date) :
    /\ TargetsOn(days, date)[k].lectureId = lectureId
    /\ TargetsOn(days, date)[k].isRevision

HasFirstPassEntry(days, date, lectureId) ==
  \E k \in DOMAIN TargetsOn(days, date) :
    /\ TargetsOn(days, date)[k].lectureId = lectureId
    /\ ~TargetsOn(days, date)[k].isRevision

\* C28 as stated: after a pass that reports success, each eligible lecture has an
\* entry with isRevision = true among the targets of its target date, also when
\* that day already holds a non-revision entry for the same lectureId.
C28_AsStated ==
  (last.op = "revision" /\ last.message = "scheduled")
    => \A i \in DOMAIN last.eligible :
         HasRevisionEntry(studyDays, PassDate(last, i), last.eligible[i])

\* C28 (amended): after a pass that reports success, each eligible lecture has an
\* entry with its lectureId among the targets of its target date; that day holds
\* a revision entry for the lecture exactly when it held one before the pass or
\* held no entry with the lectureId at all: a day that holds only a non-revision
\* entry for the lecture (for example a needs_revision lecture the planner placed
\* there) gets no revision entry, and its targetLectures and targetMinutes stay
\* as they were.
C28_RevisionEntryUnlessHeld ==
  [][ (last'.op = "revision" /\ last'.message = "scheduled")
      => \A i \in DOMAIN last'.eligible :
           LET d == PassDate(last', i)
               id == last'.eligible[i]
           IN /\ HoldsTarget(studyDays', d, id)
              /\ HasRevisionEntry(studyDays', d, id)
                   <=> (HasRevisionEntry(studyDays, d, id) \/ ~HoldsTarget(studyDays, d, id))
              /\ (HoldsTarget(studyDays, d, id) /\ Len(last'.eligible) = 1)
                   => DayOn(studyDays', d) = DayOn(studyDays, d) ]_vars

\* a pass reported success for a needs_revision lecture whose target date holds
\* the lecture as a first-pass target only
C28_Witness ==
  /\ last.op = "revision" /\ last.message = "scheduled"
  /\ \E i \in DOMAIN last.eligible :
       /\ lectures[FindLecture(lectures, last.eligible[i])].status = "needs_revision"
       /\ HasFirstPassEntry(studyDays, PassDate(last, i), last.eligible[i])
       /\ ~HasRevisionEntry(studyDays, PassDate(last, i), last.eligible[i])

\* ---- the end of a focus session ---------------------------------------------------
\* C29: once endFocusSession has been applied, focusSession is null, and a timer
\* tick that was already queued and is applied afterwards leaves the whole state
\* as it is: it does not bring the session back and changes no StudyDay; while a
\* session exists its remainingSeconds never goes below 0, however many ticks.
C29_FocusEndIsFinal ==
  /\ [](focusSession # NoSession => focusSession.remainingSeconds >= 0)
  /\ [][ /\ last'.op = "endFocus" => focusSession' = NoSession
         /\ (last'.op = "tick" /\ focusSession = NoSession)
              => /\ focusSession' = NoSession
                 /\ studyDays' = studyDays
                 /\ lectures' = lectures
                 /\ subjects' = subjects
                 /\ settings' = settings ]_vars

\* a tick applied right after the end of a session that had run down to zero and
\* left its lecture and its minutes on today
C29_Witness ==
  /\ last.op = "tick"
  /\ focusSession = NoSession
  /\ \E i \in DOMAIN studyDays :
       /\ studyDays[i].date = Today
       /\ studyDays[i].completedMinutes >= 5
       /\ Len(studyDays[i].completedLectures) > 0

\* ---- the end of the streak walk ---------------------------------------------------
\* C30: for every calendar and every threshold setting, minLectures = 0 or
\* minMinutes = 0 included (every day the calendar holds then qualifies), the
\* backward walk of computeStreak stops after at most (number of StudyDays + 1)
\* turns and returns a value between 0 and the number of StudyDays.
C30_StreakTerminates ==
  /\ [](last.steps <= Len(studyDays) + 1)
  /\ [](last.op = "streak"
          => /\ last.streak >= 0
             /\ last.streak <= Len(studyDays)
             /\ last.streak = computeStreak(State))
  /\ <>(last.op = "streak")

\* the walk has stopped on a calendar that holds every day of the window, with a
\* threshold of 0: every day counted, number of StudyDays + 1 turns
C30_Witness ==
  /\ last.op = "streak"
  /\ Len(studyDays) = StreakDays
  /\ \/ settings.streakMinLecturesOrMinutes.minLectures = 0
     \/ settings.streakMinLecturesOrMinutes.minMinutes = 0
  /\ last.streak = Len(studyDays)
  /\ last.steps = Len(studyDays) + 1

====
